---- MODULE Spec2Model ----
(***************************************************************************)
(* Share-link login and invite of api/src/services/shares.ts               *)
(* (SharesService.login, SharesService.invite).                            *)
(*                                                                         *)
(* Several login calls run concurrently against one store (the tables      *)
(* directus_shares and directus_sessions).  Every await of the method is a *)
(* suspension point; one action of the model is one awaited operation      *)
(* together with the synchronous code that follows it up to the next       *)
(* await.  The clock is the variable now; knex.fn.now(), Date.now() and    *)
(* new Date() all read it.  A call that has settled (pc "done" or          *)
(* "failed") is at the moment of its return: the caller takes the result   *)
(* (Return) before anything else happens.  invite is modelled the same     *)
(* way, one call at a time; the mails it has sent are the sequence         *)
(* mailbox.                                                                *)
(*                                                                         *)
(* A nullable column or an optional field is a sequence of length at most  *)
(* one: <<>> is null / undefined, <<v>> is the value v.                    *)
(***************************************************************************)
EXTENDS Integers, Sequences, FiniteSets, TLC

\* ------------------------------------------------------------------ bounds
\* The refresh tokens drawn in a run (the logins that pass verification).
MaxLogins == 3
\* The clock runs from 0 to MaxTime.
MaxTime == 2
\* ms(env.REFRESH_TOKEN_TTL) and ms(env.ACCESS_TOKEN_TTL), in clock ticks.
RefreshTokenTTL == 1
AccessTokenTTL == 1
\* The longest recipient list of an invite, and the mails sent in a run.
MaxEmails == 2
MaxMails == 3

Null == <<>>
Some(v) == <<v>>
IsNull(x) == x = <<>>
Val(x) == x[1]

Procs == {"p1", "p2"}
ShareIds == {"s1", "s2"}
UnknownId == "zz"
Passwords == {"", "pw1"}

\* The payloads a caller may send: payload.share, and payload.password, which
\* may be missing altogether.
Payloads == [share : ShareIds \cup {UnknownId},
             password : {Null} \cup {Some(w) : w \in Passwords}]

\* invite: the callers, the recipients, and what a caller may send.
Users == {"u1", "u2"}
Emails == {"a@x", "b@x"}
EmailLists == UNION {[1..n -> Emails] : n \in 0..MaxEmails}
InvitePayloads == [emails : EmailLists, share : ShareIds \cup {UnknownId}]

\* this.accountability: missing, or with a user that may be null.
Accountabilities ==
    {Null} \cup {Some([user |-> u]) : u \in {Null} \cup {Some(w) : w \in Users}}

VARIABLES now, shares, sessions, pc, payload, record, newSession, accessToken,
          sweepDate, result, steps, returned, nextToken,
          accountability, invitePc, invitePayload, share, userInfo,
          emailIndex, inviteReads, inviteResult, mailbox

\* The state of an invite call (mailbox is what the mail service has sent).
inviteVars == <<accountability, invitePc, invitePayload, share, userInfo,
                emailIndex, inviteReads, inviteResult, mailbox>>

vars == <<now, shares, sessions, pc, payload, record, newSession, accessToken,
          sweepDate, result, steps, returned, nextToken, inviteVars>>

\* ------------------------------------------------------------ the password
\* argon2.hash / argon2.verify: a digest is not the plain text, and verify
\* compares the digest with the digest of the plain text.
Hash(plain) == <<"$argon2", plain>>

\* ------------------------------------------------------------------ tables
ShareRows ==
    [id : ShareIds, role : {"r1", "r2"}, item : {"i1", "i2"},
     collection : {"c1", "c2"},
     date_start : {Null, Some(1)}, date_end : {Null, Some(1)},
     times_used : {0}, max_uses : {Null, Some(1)},
     password : {Null, Some(Hash("pw1"))}]

\* Sessions that exist before any share login: sessions of full user logins
\* (share is null), one that expires early and one that outlives the run.
InitialSessions ==
    {[token |-> <<"user", 1>>, expires |-> 1, ip |-> "ip0",
      user_agent |-> "ua0", share |-> Null],
     [token |-> <<"user", 2>>, expires |-> MaxTime + RefreshTokenTTL + 1,
      ip |-> "ip0", user_agent |-> "ua0", share |-> Null]}

NoResult == [kind |-> "none"]
Failure(e) == [kind |-> "error", error |-> e]

\* The tables before any share login.  Share s1 has no end date and any
\* combination of a start date, a quota and a password; share s2 has an end
\* date, a password and no quota.  No share has been used.
Init ==
    /\ now = 0
    /\ shares \in [ShareIds -> ShareRows]
    /\ \A id \in ShareIds : shares[id].id = id
    /\ shares["s1"].role = "r1" /\ shares["s1"].item = "i1"
    /\ shares["s1"].collection = "c1"
    /\ shares["s2"].role = "r2" /\ shares["s2"].item = "i2"
    /\ shares["s2"].collection = "c2"
    /\ IsNull(shares["s1"].date_end)
    /\ IsNull(shares["s2"].date_start) /\ ~IsNull(shares["s2"].date_end)
    /\ IsNull(shares["s2"].max_uses) /\ ~IsNull(shares["s2"].password)
    /\ sessions = InitialSessions
    /\ pc = [p \in Procs |-> "idle"]
    /\ payload = [p \in Procs |-> Null]
    /\ record = [p \in Procs |-> Null]
    /\ newSession = [p \in Procs |-> Null]
    /\ accessToken = [p \in Procs |-> Null]
    /\ sweepDate = [p \in Procs |-> Null]
    /\ result = [p \in Procs |-> NoResult]
    /\ steps = [p \in Procs |-> <<>>]
    /\ returned = {}
    /\ nextToken = 1
    /\ accountability = Null
    /\ invitePc = "idle"
    /\ invitePayload = Null
    /\ share = Null
    /\ userInfo = Null
    /\ emailIndex = 0
    /\ inviteReads = 0
    /\ inviteResult = NoResult
    /\ mailbox = <<>>

\* ------------------------------------------------------- the share query
\* A variant of EndOk: the end date itself is already outside the window.
EndOk_Strict(row, t) == IsNull(row.date_end) \/ Val(row.date_end) > t

\* Lines 56-58: date_end IS NULL OR date_end >= now().
EndOk(row, t) == IsNull(row.date_end) \/ Val(row.date_end) >= t

\* Lines 59-61: date_start IS NULL OR date_start <= now().
StartOk(row, t) == IsNull(row.date_start) \/ Val(row.date_start) <= t

\* Lines 62-64: max_uses IS NULL OR max_uses >= times_used.
QuotaOk(row) == IsNull(row.max_uses) \/ Val(row.max_uses) >= row.times_used

\* Lines 43-53: the selected columns under their aliases.
ShareData(row) ==
    [share_id |-> row.id, share_role |-> row.role, share_item |-> row.item,
     share_collection |-> row.collection, share_start |-> row.date_start,
     share_end |-> row.date_end, share_times_used |-> row.times_used,
     share_max_uses |-> row.max_uses, share_password |-> row.password]

\* Lines 42-65: the first row with the given id that satisfies the three
\* predicates at database time t, or nothing.
Query(id, t) ==
    IF /\ id \in ShareIds
       /\ EndOk(shares[id], t)
       /\ StartOk(shares[id], t)
       /\ QuotaOk(shares[id])
    THEN Some(ShareData(shares[id]))
    ELSE Null

\* A variant of NoRecordError: a cause-specific error for a missing row.
NoRecordError_Distinct == "NotFound"

\* Line 68 and line 72: the exception thrown.
NoRecordError == "InvalidCredentials"
BadPasswordError == "InvalidCredentials"

\* A variant of HasPassword: the verifier is consulted for no row.
HasPassword_Never(rec) == FALSE

\* A variant of HasPassword: the verifier is consulted for every row.
HasPassword_Always(rec) == TRUE

\* Line 71, left operand of &&: the password column is truthy.  A stored
\* password is an argon2 digest, never the empty string.
HasPassword(rec) == ~IsNull(rec.share_password)

\* A variant of ArgonMatches: every plain text verifies.
ArgonMatches_Any(digest, plain) == TRUE

\* Line 71, argon2.verify(digest, plain) for a string: the digest is the
\* digest of the plain text.
ArgonMatches(digest, plain) == digest = Hash(plain)

\* Line 71, how the awaited argon2.verify settles: true or false for a
\* string; a null digest is never passed (the && guards it) and would be
\* rejected; for a missing plain text (undefined, outside the declared
\* Buffer | string) the library decides: it rejects with its own error or
\* answers false.
ArgonOutcomes(digest, plain) ==
    IF IsNull(digest) THEN {"throws"}
    ELSE IF IsNull(plain) THEN {"throws", "false"}
    ELSE IF ArgonMatches(Val(digest), Val(plain)) THEN {"true"}
    ELSE {"false"}

\* A variant of UsedAfter: the counter is bumped twice.
UsedAfter_Twice(rec) == rec.share_times_used + 2

\* Line 76: the value written to times_used.
UsedAfter(rec) == rec.share_times_used + 1

\* A variant of TokenPayload: the token gives access to the app.
TokenPayload_AppAccess(rec) ==
    [app_access |-> TRUE, admin_access |-> FALSE, role |-> rec.share_role,
     share |-> rec.share_id,
     share_scope |-> [item |-> rec.share_item,
                      collection |-> rec.share_collection]]

\* Lines 79-88: the token payload.
TokenPayload(rec) ==
    [app_access |-> FALSE, admin_access |-> FALSE, role |-> rec.share_role,
     share |-> rec.share_id,
     share_scope |-> [item |-> rec.share_item,
                      collection |-> rec.share_collection]]

\* Lines 90-93: jwt.sign.
JwtSign(claims) ==
    [claims |-> claims, issuer |-> "directus", expiresIn |-> AccessTokenTTL]

\* Line 96: Date.now() + ms(REFRESH_TOKEN_TTL).
RefreshTokenExpiration(t) == t + RefreshTokenTTL

\* Lines 98-104: the inserted row.  nanoid(64) is modelled as a value never
\* drawn before.
SessionRow(tok, t, rec) ==
    [token |-> tok, expires |-> RefreshTokenExpiration(t), ip |-> "ip0",
     user_agent |-> "ua0", share |-> Some(rec.share_id)]

\* A variant of Expired: the comparison is the wrong way round.
Expired_Reversed(row, date) == row.expires > date

\* A variant of Expired: a row that expires at the sweep date goes too.
Expired_Inclusive(row, date) == row.expires <= date

\* Line 106: where('expires', '<', date).
Expired(row, date) == row.expires < date

\* Lines 108-112: the value returned.
LoginResult(tok, access) ==
    [kind |-> "tokens", accessToken |-> access, refreshToken |-> tok,
     expires |-> AccessTokenTTL]

\* ----------------------------------------------------------------- actions
InFlight(p) == pc[p] \in {"select", "verify", "update", "insert", "sweep"}

Settled(p) == pc[p] \in {"done", "failed"}

\* No call is at the moment of its return.
NoneSettled == \A q \in Procs : ~Settled(q)

\* The refresh tokens drawn so far.
Drawn == nextToken - 1

Tick ==
    /\ NoneSettled
    /\ UNCHANGED inviteVars
    /\ now < MaxTime
    /\ now' = now + 1
    /\ UNCHANGED <<shares, sessions, pc, payload, record, newSession,
                   accessToken, sweepDate, result, steps, returned,
                   nextToken>>

\* Line 41: a caller enters login(payload) and issues the query.
Login(p, pl) ==
    /\ NoneSettled
    /\ UNCHANGED inviteVars
    /\ pc[p] = "idle"
    /\ Drawn + Cardinality({q \in Procs : InFlight(q)}) < MaxLogins
    /\ pc' = [pc EXCEPT ![p] = "select"]
    /\ payload' = [payload EXCEPT ![p] = Some(pl)]
    /\ record' = [record EXCEPT ![p] = Null]
    /\ newSession' = [newSession EXCEPT ![p] = Null]
    /\ accessToken' = [accessToken EXCEPT ![p] = Null]
    /\ sweepDate' = [sweepDate EXCEPT ![p] = Null]
    /\ result' = [result EXCEPT ![p] = NoResult]
    /\ steps' = [steps EXCEPT ![p] = <<>>]
    /\ UNCHANGED <<now, shares, sessions, returned, nextToken>>

\* A variant of Select: the use is counted when the row is read, before the
\* password is checked.
Select_EagerCount(p) ==
    /\ NoneSettled
    /\ UNCHANGED inviteVars
    /\ pc[p] = "select"
    /\ LET rec == Query(Val(payload[p]).share, now) IN
       /\ record' = [record EXCEPT ![p] = rec]
       /\ steps' = [steps EXCEPT ![p] = Append(@, "select")]
       /\ IF IsNull(rec)
          THEN /\ pc' = [pc EXCEPT ![p] = "failed"]
               /\ result' = [result EXCEPT ![p] = Failure(NoRecordError)]
               /\ UNCHANGED shares
          ELSE /\ pc' = [pc EXCEPT ![p] =
                            IF HasPassword(Val(rec)) THEN "verify" ELSE "update"]
               /\ shares' = [shares EXCEPT ![Val(rec).share_id].times_used =
                                               UsedAfter(Val(rec))]
               /\ UNCHANGED result
    /\ UNCHANGED <<now, sessions, payload, newSession, accessToken,
                   sweepDate, returned, nextToken>>

\* Lines 42-71: the query runs; no row throws, a row with a password goes to
\* argon2.verify, a row without one goes on to the update.
Select(p) ==
    /\ NoneSettled
    /\ UNCHANGED inviteVars
    /\ pc[p] = "select"
    /\ LET rec == Query(Val(payload[p]).share, now) IN
       /\ record' = [record EXCEPT ![p] = rec]
       /\ steps' = [steps EXCEPT ![p] = Append(@, "select")]
       /\ IF IsNull(rec)
          THEN /\ pc' = [pc EXCEPT ![p] = "failed"]
               /\ result' = [result EXCEPT ![p] = Failure(NoRecordError)]
          ELSE /\ pc' = [pc EXCEPT ![p] =
                            IF HasPassword(Val(rec)) THEN "verify" ELSE "update"]
               /\ UNCHANGED result
    /\ UNCHANGED <<now, shares, sessions, payload, newSession, accessToken,
                   sweepDate, returned, nextToken>>

\* Lines 71-73: argon2.verify settles.
Verify(p) ==
    /\ NoneSettled
    /\ UNCHANGED inviteVars
    /\ pc[p] = "verify"
    /\ steps' = [steps EXCEPT ![p] = Append(@, "verify")]
    /\ \E o \in ArgonOutcomes(Val(record[p]).share_password,
                              Val(payload[p]).password) :
          /\ pc' = [pc EXCEPT ![p] = IF o = "true" THEN "update" ELSE "failed"]
          /\ result' = [result EXCEPT ![p] =
                          IF o = "true" THEN @
                          ELSE IF o = "false" THEN Failure(BadPasswordError)
                          ELSE Failure("TypeError")]
    /\ UNCHANGED <<now, shares, sessions, payload, record, newSession,
                   accessToken, sweepDate, returned, nextToken>>

\* A variant of Update: the counter is incremented in the store, from the
\* value it has at the time of the write.
Update_Reread(p) ==
    /\ NoneSettled
    /\ UNCHANGED inviteVars
    /\ pc[p] = "update"
    /\ LET rec == Val(record[p]) IN
       /\ shares' = [shares EXCEPT ![rec.share_id].times_used = @ + 1]
       /\ accessToken' = [accessToken EXCEPT ![p] = Some(JwtSign(TokenPayload(rec)))]
       /\ newSession' = [newSession EXCEPT ![p] =
                            Some(SessionRow(<<"nanoid", nextToken>>, now, rec))]
    /\ nextToken' = nextToken + 1
    /\ steps' = [steps EXCEPT ![p] = Append(@, "update")]
    /\ pc' = [pc EXCEPT ![p] = "insert"]
    /\ UNCHANGED <<now, sessions, payload, record, sweepDate, result, returned>>

\* Lines 75-96: the update runs, then the tokens are made.
Update(p) ==
    /\ NoneSettled
    /\ UNCHANGED inviteVars
    /\ pc[p] = "update"
    /\ LET rec == Val(record[p]) IN
       /\ shares' = [shares EXCEPT ![rec.share_id].times_used = UsedAfter(rec)]
       /\ accessToken' = [accessToken EXCEPT ![p] = Some(JwtSign(TokenPayload(rec)))]
       /\ newSession' = [newSession EXCEPT ![p] =
                            Some(SessionRow(<<"nanoid", nextToken>>, now, rec))]
    /\ nextToken' = nextToken + 1
    /\ steps' = [steps EXCEPT ![p] = Append(@, "update")]
    /\ pc' = [pc EXCEPT ![p] = "insert"]
    /\ UNCHANGED <<now, sessions, payload, record, sweepDate, result, returned>>

\* Lines 98-106: the insert runs, then the delete is issued with new Date().
Insert(p) ==
    /\ NoneSettled
    /\ UNCHANGED inviteVars
    /\ pc[p] = "insert"
    /\ sessions' = sessions \cup {Val(newSession[p])}
    /\ sweepDate' = [sweepDate EXCEPT ![p] = Some(now)]
    /\ steps' = [steps EXCEPT ![p] = Append(@, "insert")]
    /\ pc' = [pc EXCEPT ![p] = "sweep"]
    /\ UNCHANGED <<now, shares, payload, record, newSession, accessToken,
                   result, returned, nextToken>>

\* A variant of Sweep: only the expired sessions of the share that logs in
\* are deleted.
Sweep_OwnShare(p) ==
    /\ NoneSettled
    /\ UNCHANGED inviteVars
    /\ pc[p] = "sweep"
    /\ sessions' = {x \in sessions :
                       \/ x.share # Some(Val(record[p]).share_id)
                       \/ ~Expired(x, Val(sweepDate[p]))}
    /\ steps' = [steps EXCEPT ![p] = Append(@, "sweep")]
    /\ result' = [result EXCEPT ![p] =
                     LoginResult(Val(newSession[p]).token, Val(accessToken[p]))]
    /\ returned' = returned \cup {Val(newSession[p])}
    /\ pc' = [pc EXCEPT ![p] = "done"]
    /\ UNCHANGED <<now, shares, payload, record, newSession, accessToken,
                   sweepDate, nextToken>>

\* Lines 106-112: the delete runs, then the tokens are returned.
Sweep(p) ==
    /\ NoneSettled
    /\ UNCHANGED inviteVars
    /\ pc[p] = "sweep"
    /\ sessions' = {x \in sessions : ~Expired(x, Val(sweepDate[p]))}
    /\ steps' = [steps EXCEPT ![p] = Append(@, "sweep")]
    /\ result' = [result EXCEPT ![p] =
                     LoginResult(Val(newSession[p]).token, Val(accessToken[p]))]
    /\ returned' = returned \cup {Val(newSession[p])}
    /\ pc' = [pc EXCEPT ![p] = "done"]
    /\ UNCHANGED <<now, shares, payload, record, newSession, accessToken,
                   sweepDate, nextToken>>

\* The caller takes the result or the exception; the locals of the call are
\* gone.
Return(p) ==
    /\ Settled(p)
    /\ UNCHANGED inviteVars
    /\ pc' = [pc EXCEPT ![p] = "idle"]
    /\ payload' = [payload EXCEPT ![p] = Null]
    /\ record' = [record EXCEPT ![p] = Null]
    /\ newSession' = [newSession EXCEPT ![p] = Null]
    /\ accessToken' = [accessToken EXCEPT ![p] = Null]
    /\ sweepDate' = [sweepDate EXCEPT ![p] = Null]
    /\ result' = [result EXCEPT ![p] = NoResult]
    /\ steps' = [steps EXCEPT ![p] = <<>>]
    /\ UNCHANGED <<now, shares, sessions, returned, nextToken>>

\* Lines 75-77, 98-104 and 106: the store rejects the awaited operation;
\* nothing catches the rejection, so login rejects with the store's error.
\* The operation has had no effect; what the call did before stays.
StoreError == "Unavailable"

StoreFails(p, at) ==
    /\ NoneSettled
    /\ UNCHANGED inviteVars
    /\ pc[p] = at
    /\ pc' = [pc EXCEPT ![p] = "failed"]
    /\ result' = [result EXCEPT ![p] = Failure(StoreError)]
    /\ UNCHANGED <<now, shares, sessions, payload, record, newSession,
                   accessToken, sweepDate, steps, returned, nextToken>>

UpdateFails(p) == StoreFails(p, "update")
InsertFails(p) == StoreFails(p, "insert")
SweepFails(p) == StoreFails(p, "sweep")

\* ------------------------------------------------------------------ invite
loginVars == <<now, shares, sessions, pc, payload, record, newSession,
               accessToken, sweepDate, result, steps, returned, nextToken>>

\* Line 120: this.accountability?.user.
UserOf(acc) == IF IsNull(acc) THEN Null ELSE Val(acc).user

\* A variant of NoUser: every caller is let through.
NoUser_Never(acc) == FALSE

\* Line 120: !this.accountability?.user.
NoUser(acc) == IsNull(UserOf(acc))

ForbiddenError == "Forbidden"
MailError == "Unavailable"

\* The shares each user may read.
CanRead == {<<"u1", "s1">>, <<"u1", "s2">>, <<"u2", "s1">>}

\* Line 122, ItemsService.readOne under the caller's accountability: the
\* item exists and the caller may read it; a service without accountability
\* checks no permission, and a caller without a user may read nothing.
Readable(acc, id) ==
    /\ id \in ShareIds
    /\ \/ IsNull(acc)
       \/ /\ ~IsNull(UserOf(acc))
          /\ <<Val(UserOf(acc)), id>> \in CanRead

\* Lines 135-153: the mail to one recipient.
Message(email, info, sh, id) ==
    [to |-> email, subject |-> <<info.id, "has shared an item with you">>,
     inviter |-> info.id, collection |-> sh.collection, link |-> id]

InviteSettled == invitePc \in {"done", "failed"}

\* Lines 119-122: a caller enters invite(payload); an anonymous caller is
\* thrown out, for any other the share read is issued.
Invite(acc, pl) ==
    /\ invitePc = "idle"
    /\ Len(mailbox) + Len(pl.emails) <= MaxMails
    /\ accountability' = acc
    /\ invitePayload' = Some(pl)
    /\ IF NoUser(acc)
       THEN /\ invitePc' = "failed"
            /\ inviteResult' = Failure(ForbiddenError)
       ELSE /\ invitePc' = "readShare"
            /\ UNCHANGED inviteResult
    /\ UNCHANGED <<share, userInfo, emailIndex, inviteReads, mailbox>>
    /\ UNCHANGED loginVars

\* Lines 122-124: this.readOne settles; then the user read is issued.
ReadShare ==
    /\ invitePc = "readShare"
    /\ inviteReads' = inviteReads + 1
    /\ LET id == Val(invitePayload).share IN
       IF Readable(accountability, id)
       THEN /\ share' = Some([collection |-> shares[id].collection])
            /\ invitePc' = "readUser"
            /\ UNCHANGED inviteResult
       ELSE /\ invitePc' = "failed"
            /\ inviteResult' = Failure(ForbiddenError)
            /\ UNCHANGED share
    /\ UNCHANGED <<accountability, invitePayload, userInfo, emailIndex, mailbox>>
    /\ UNCHANGED loginVars

\* Lines 124-143: usersService.readOne settles, the message is built and
\* the loop is entered; with no recipient the call returns.
ReadUser ==
    /\ invitePc = "readUser"
    /\ inviteReads' = inviteReads + 1
    /\ userInfo' = Some([id |-> UserOf(accountability)])
    /\ invitePc' = IF Val(invitePayload).emails = <<>> THEN "done" ELSE "send"
    /\ inviteResult' = IF Val(invitePayload).emails = <<>>
                       THEN [kind |-> "void"] ELSE inviteResult
    /\ UNCHANGED <<accountability, invitePayload, share, emailIndex, mailbox>>
    /\ UNCHANGED loginVars

\* A variant of Send: a mail goes to every recipient at once.
Send_Broadcast ==
    /\ invitePc = "send"
    /\ LET emails == Val(invitePayload).emails IN
       /\ mailbox' = mailbox \o
             [i \in 1..Len(emails) |->
                Message(emails[i], Val(userInfo), Val(share),
                        Val(invitePayload).share)]
       /\ emailIndex' = Len(emails)
    /\ invitePc' = "done"
    /\ inviteResult' = [kind |-> "void"]
    /\ UNCHANGED <<accountability, invitePayload, share, userInfo, inviteReads>>
    /\ UNCHANGED loginVars

\* Lines 143-154: mailService.send to the next recipient settles; the loop
\* goes on to the next one, or the call returns after the last.
Send ==
    /\ invitePc = "send"
    /\ LET emails == Val(invitePayload).emails IN
       /\ mailbox' = Append(mailbox,
                            Message(emails[emailIndex + 1], Val(userInfo),
                                    Val(share), Val(invitePayload).share))
       /\ emailIndex' = emailIndex + 1
       /\ invitePc' = IF emailIndex + 1 = Len(emails) THEN "done" ELSE "send"
       /\ inviteResult' = IF emailIndex + 1 = Len(emails)
                          THEN [kind |-> "void"] ELSE inviteResult
    /\ UNCHANGED <<accountability, invitePayload, share, userInfo, inviteReads>>
    /\ UNCHANGED loginVars

\* Lines 143-154: mailService.send rejects; nothing catches it.
SendFails ==
    /\ invitePc = "send"
    /\ invitePc' = "failed"
    /\ inviteResult' = Failure(MailError)
    /\ UNCHANGED <<accountability, invitePayload, share, userInfo, emailIndex,
                   inviteReads, mailbox>>
    /\ UNCHANGED loginVars

\* The caller takes the outcome; the locals of the call are gone.
InviteReturn ==
    /\ InviteSettled
    /\ invitePc' = "idle"
    /\ invitePayload' = Null
    /\ share' = Null
    /\ userInfo' = Null
    /\ emailIndex' = 0
    /\ inviteReads' = 0
    /\ inviteResult' = NoResult
    /\ UNCHANGED <<accountability, mailbox>>
    /\ UNCHANGED loginVars

Alone(p) == \A q \in Procs \ {p} : ~InFlight(q)

Next ==
    \/ Tick
    \/ \E p \in Procs, pl \in Payloads : Login(p, pl)
    \/ \E p \in Procs : Select(p)
    \/ \E p \in Procs : Verify(p)
    \/ \E p \in Procs : Update(p)
    \/ \E p \in Procs : Insert(p)
    \/ \E p \in Procs : Sweep(p)
    \/ \E p \in Procs : Return(p)

Spec == Init /\ [][Next]_vars

\* Logins one after another: a call starts and runs only while no other call
\* is in flight.
SeqNext ==
    \/ Tick
    \/ \E p \in Procs, pl \in Payloads : Alone(p) /\ Login(p, pl)
    \/ \E p \in Procs : Alone(p) /\ Select(p)
    \/ \E p \in Procs : Alone(p) /\ Verify(p)
    \/ \E p \in Procs : Alone(p) /\ Update(p)
    \/ \E p \in Procs : Alone(p) /\ Insert(p)
    \/ \E p \in Procs : Alone(p) /\ Sweep(p)
    \/ \E p \in Procs : Return(p)

SeqSpec == Init /\ [][SeqNext]_vars

\* Logins one after another against a store whose writes may fail.
FaultNext ==
    \/ SeqNext
    \/ \E p \in Procs : Alone(p) /\ UpdateFails(p)
    \/ \E p \in Procs : Alone(p) /\ InsertFails(p)
    \/ \E p \in Procs : Alone(p) /\ SweepFails(p)

FaultSpec == Init /\ [][FaultNext]_vars

\* Invite calls one after another, by any caller.
InviteNext ==
    \/ \E acc \in Accountabilities, pl \in InvitePayloads : Invite(acc, pl)
    \/ ReadShare
    \/ ReadUser
    \/ Send
    \/ SendFails
    \/ InviteReturn

InviteSpec == Init /\ [][InviteNext]_vars

\* ------------------------------------------------------------------ claims
\* The successful logins of share id so far (the rows returned to callers).
Granted(id) == Cardinality({x \in returned : x.share = Some(id)})

Range(f) == {f[i] : i \in DOMAIN f}

\* C1: for a share with maxUses = N, timesUsed = 0 at the start, no window
\* bound and no password, logins run one after another succeed exactly N
\* times: never more than N logins are granted, and a login of that share
\* fails only once N have been granted.
C1_QuotaBoundsLogins ==
    \A id \in ShareIds :
        (/\ ~IsNull(shares[id].max_uses)
         /\ IsNull(shares[id].date_start)
         /\ IsNull(shares[id].date_end)
         /\ IsNull(shares[id].password))
        => /\ Granted(id) <= Val(shares[id].max_uses)
           /\ \A p \in Procs :
                 (pc[p] = "failed" /\ Val(payload[p]).share = id)
                 => Granted(id) >= Val(shares[id].max_uses)

\* C2: a login whose share has a non-null maxUses and timesUsed equal to
\* maxUses at the moment of verification fails: no call that returns tokens
\* has verified such a row.
C2_ExhaustedQuotaFails ==
    \A p \in Procs :
        (pc[p] = "done" /\ ~IsNull(Val(record[p]).share_max_uses))
        => Val(record[p]).share_times_used # Val(Val(record[p]).share_max_uses)

\* C3: under any interleaving of concurrent logins the stored timesUsed of a
\* share never decreases, and it is written only by the update of a login
\* that passed verification for that same share.
C3_TimesUsedNeverDecreases ==
    [][\A id \in ShareIds :
          /\ shares'[id].times_used >= shares[id].times_used
          /\ shares'[id].times_used # shares[id].times_used
             => \E p \in Procs : /\ pc[p] = "update" /\ pc'[p] = "insert"
                                 /\ Val(record[p]).share_id = id]_vars

\* The session rows of share id in the table, and those returned to callers.
SessionsOf(id) == {x \in sessions : x.share = Some(id)}
ReturnedOf(id) == {x \in returned : x.share = Some(id)}

Quiescent == \A p \in Procs : ~InFlight(p)

\* C4 as stated: after k successful logins run one after another, timesUsed
\* has grown by k and the table holds k session rows of the share, which
\* are the rows whose tokens were returned.
C4_KLoginsLeaveKRows ==
    Quiescent
    => \A id \in ShareIds :
          /\ shares[id].times_used = Granted(id)
          /\ Cardinality(SessionsOf(id)) = Granted(id)
          /\ SessionsOf(id) = ReturnedOf(id)

\* C4 as amended: when logins run one after another, the update of a login
\* raises timesUsed of its share by exactly 1 and touches no other share,
\* its insert adds exactly one row, with share = the share's id, expires =
\* (the time the token was made) + the refresh-token TTL and a token no row
\* has had, and that token is the one returned; so after k successful logins
\* timesUsed has grown by k and k rows with pairwise distinct tokens were
\* returned, of which every row that has not expired is in the table, and
\* the table holds no other row of the share.  (A row whose expires has
\* passed may have been deleted by a sweep.)
C4_SequentialLoginsCount ==
    /\ [](Quiescent
          => \A id \in ShareIds :
                /\ shares[id].times_used = Granted(id)
                /\ SessionsOf(id) \subseteq ReturnedOf(id)
                /\ \A x \in ReturnedOf(id) : x.expires >= now => x \in sessions
                /\ \A x, y \in returned : x.token = y.token => x = y)
    /\ [][\A p \in Procs :
            /\ (pc[p] = "update" /\ pc'[p] = "insert")
               => LET id == Val(record[p]).share_id IN
                  /\ shares'[id].times_used = shares[id].times_used + 1
                  /\ \A o \in ShareIds \ {id} : shares'[o] = shares[o]
                  /\ Val(newSession'[p]).share = Some(id)
                  /\ Val(newSession'[p]).expires = now + RefreshTokenTTL
                  /\ sessions' = sessions
            /\ (pc[p] = "insert" /\ pc'[p] = "sweep")
               => /\ Val(newSession[p]) \notin sessions
                  /\ sessions' = sessions \cup {Val(newSession[p])}
                  /\ \A x \in sessions \cup returned :
                        x.token # Val(newSession[p]).token
            /\ (pc[p] = "sweep" /\ pc'[p] = "done")
               => /\ result'[p].kind = "tokens"
                  /\ result'[p].refreshToken = Val(newSession[p]).token
                  /\ shares' = shares]_vars

\* C4 witness: two logins of one share, run one after another, have returned
\* and both rows are in the table.
C4_Witness ==
    /\ Quiescent
    /\ \E id \in ShareIds :
          Granted(id) = 2 /\ Cardinality(SessionsOf(id)) = 2
                          /\ shares[id].times_used = 2

\* C5 as stated: every login call that settles, in success or in failure,
\* leaves no session row with expires < now and keeps every row with
\* expires >= now that was there.
C5_EveryLoginSweeps ==
    [][\A p \in Procs :
          (InFlight(p) /\ Settled(p)')
          => /\ \A x \in sessions' : x.expires >= now'
             /\ \A x \in sessions : x.expires >= now => x \in sessions']_vars

\* C5 as amended: only a login that ends in success sweeps.  Its last step
\* deletes exactly the rows whose expires is before the date the sweep was
\* issued with (the clock right after its insert) and keeps every other
\* row; no other step of any login deletes a row, and the steps of a login
\* up to its verdict (all the steps of a login that ends in
\* InvalidCredentials) leave the session table as it is.
C5_OnlySuccessSweeps ==
    [][/\ \A p \in Procs :
            /\ (pc[p] = "sweep" /\ pc'[p] = "done")
               => sessions' = {x \in sessions :
                                 x.expires >= Val(sweepDate[p])}
            /\ (pc[p] \in {"select", "verify"} /\ pc'[p] # pc[p])
               => sessions' = sessions
       /\ (sessions \ sessions' # {})
          => \E p \in Procs : pc[p] = "sweep" /\ pc'[p] = "done"]_vars

\* C5 witness: a successful login has returned, the user session that had
\* expired is gone and the one that has not is still there.
C5_Witness ==
    \E p \in Procs :
        /\ pc[p] = "done"
        /\ \A x \in sessions : x.token # <<"user", 1>>
        /\ \E x \in sessions : x.token = <<"user", 2>>

\* C6: a login that fails verification (no matching row, or a password
\* mismatch) has run the query and at most the password check, returns an
\* error and no token, and these steps change neither any share nor the
\* session table.
C6_FailedLoginMutatesNothing ==
    /\ [](\A p \in Procs :
            pc[p] = "failed"
            => /\ steps[p] \in {<<"select">>, <<"select", "verify">>}
               /\ result[p].kind = "error"
               /\ IsNull(newSession[p]) /\ IsNull(accessToken[p]))
    /\ [][\A p \in Procs :
            (pc[p] \in {"select", "verify"} /\ pc'[p] # pc[p])
            => shares' = shares /\ sessions' = sessions]_vars

\* C6 witness: a login with a wrong password has failed.
C6_Witness ==
    \E p \in Procs :
        /\ pc[p] = "failed"
        /\ ~IsNull(record[p])
        /\ ~IsNull(Val(payload[p]).password)
        /\ steps[p] = <<"select", "verify">>

\* C7: a login that fails for an unknown id, a closed window, an exhausted
\* quota (no row returned) or a wrong password (a supplied password that
\* does not verify) fails with InvalidCredentials and nothing else.
C7_OneOpaqueError ==
    \A p \in Procs :
        (/\ pc[p] = "failed"
         /\ IsNull(record[p]) \/ ~IsNull(Val(payload[p]).password))
        => result[p] = Failure("InvalidCredentials")

\* C7 witness: a login has failed on the quota of a share that is known and
\* inside its window.
C7_Witness ==
    \E p \in Procs :
        /\ pc[p] = "failed"
        /\ IsNull(record[p])
        /\ Val(payload[p]).share \in ShareIds
        /\ LET row == shares[Val(payload[p]).share] IN
              /\ EndOk(row, now) /\ StartOk(row, now)
              /\ ~IsNull(row.max_uses)
              /\ row.times_used > Val(row.max_uses)

\* C8: a login that carries no password for a share that has one never
\* passes verification, and fails with InvalidCredentials and no other
\* error.
C8_MissingPasswordRejected ==
    \A p \in Procs :
        (/\ ~IsNull(record[p])
         /\ ~IsNull(Val(record[p]).share_password)
         /\ IsNull(Val(payload[p]).password))
        => /\ pc[p] \notin {"update", "insert", "sweep", "done"}
           /\ pc[p] = "failed" => result[p] = Failure("InvalidCredentials")

\* C9: for a row with a password that the query returned (window and quota
\* hold), a login with a supplied password passes verification, and returns
\* tokens, exactly when the stored digest is the digest of that password;
\* otherwise it fails with InvalidCredentials.
C9_PasswordDecides ==
    \A p \in Procs :
        (/\ ~IsNull(record[p])
         /\ ~IsNull(Val(record[p]).share_password)
         /\ ~IsNull(Val(payload[p]).password))
        => LET matches == Val(Val(record[p]).share_password)
                             = Hash(Val(Val(payload[p]).password)) IN
           /\ pc[p] \in {"update", "insert", "sweep", "done"} => matches
           /\ pc[p] = "done" => result[p].kind = "tokens"
           /\ pc[p] = "failed"
              => ~matches /\ result[p] = Failure("InvalidCredentials")
           /\ pc[p] \in {"verify", "update", "insert", "sweep", "done", "failed"}

\* C9 witness: a login with the right password of a protected share has
\* returned tokens.
C9_Witness ==
    \E p \in Procs :
        /\ pc[p] = "done"
        /\ ~IsNull(Val(record[p]).share_password)
        /\ Val(payload[p]).password = Some("pw1")
        /\ result[p].kind = "tokens"

\* C10: for a row without a password that the query returned, the login
\* never fails and the password verifier is never consulted, whatever
\* password is supplied (the empty string and none at all included).
C10_NoPasswordNoCheck ==
    \A p \in Procs :
        (~IsNull(record[p]) /\ IsNull(Val(record[p]).share_password))
        => /\ pc[p] \in {"update", "insert", "sweep", "done"}
           /\ "verify" \notin Range(steps[p])
           /\ pc[p] = "done" => result[p].kind = "tokens"

\* C10 witness: logins of a share without a password have returned tokens,
\* one sent with the empty string and one sent with no password.
C10_Witness ==
    \E p, q \in Procs :
        /\ pc[p] = "done"
        /\ IsNull(Val(record[p]).share_password)
        /\ Val(payload[p]).password = Some("")
        /\ result[p].kind = "tokens"
        /\ InFlight(q)
        /\ ~IsNull(record[q])
        /\ IsNull(Val(record[q]).share_password)
        /\ IsNull(Val(payload[q]).password)
        /\ pc[q] = "sweep"

\* C11: a login succeeds only inside the inclusive validity window of its
\* share.  When the query runs at time now, a share whose dateEnd is
\* earlier than now, or whose dateStart is later than now, yields no row
\* and the login fails at once with InvalidCredentials, whatever the
\* password and the quota; a null bound does not restrict its side and a
\* bound equal to now is accepted: a row is returned exactly when the id
\* is known, each bound is null or on the right side of now (now included)
\* and the quota predicate holds.
C11_WindowIsInclusive ==
    [][\A p \in Procs :
          (pc[p] = "select" /\ pc'[p] # "select")
          => LET id == Val(payload[p]).share IN
             /\ IsNull(record'[p])
                => /\ pc'[p] = "failed"
                   /\ result'[p] = Failure("InvalidCredentials")
             /\ ~IsNull(record'[p])
                <=> /\ id \in ShareIds
                    /\ \/ shares[id].date_end = Null
                       \/ Val(shares[id].date_end) >= now
                    /\ \/ shares[id].date_start = Null
                       \/ Val(shares[id].date_start) <= now
                    /\ QuotaOk(shares[id])
             /\ ~IsNull(record'[p]) => pc'[p] \in {"verify", "update"}]_vars

\* C11 witness: a login with the right password of a share whose dateEnd
\* has passed has failed, while a login of a share whose dateStart has
\* come has been let in.
C11_Witness ==
    \E p, q \in Procs :
        /\ pc[p] = "failed"
        /\ IsNull(record[p])
        /\ Val(payload[p]).share = "s2"
        /\ Val(payload[p]).password = Some("pw1")
        /\ Val(shares["s2"].date_end) < now
        /\ InFlight(q)
        /\ ~IsNull(record[q])
        /\ Val(record[q]).share_start = Some(1)

\* C12: a login applies as a unit: when a store operation after verification
\* fails (the update, the insert or the sweep), the login returns an error
\* and no tokens and the session row it made is not in the table; and a
\* login returns tokens only if its session row was inserted.
C12_LoginAppliesAsUnit ==
    \A p \in Procs :
        /\ (pc[p] = "failed" /\ result[p] = Failure(StoreError))
           => /\ \A x \in sessions : Some(x) # newSession[p]
              /\ \A x \in returned : Some(x) # newSession[p]
        /\ pc[p] = "done"
           => \E i \in DOMAIN steps[p] : steps[p][i] = "insert"
\* C13: invite called with no authenticated user in the caller's
\* accountability fails with Forbidden before any store read and before any
\* message is dispatched, whatever the recipient list: the call has read
\* nothing and sent nothing, and no step of it adds a mail.
C13_AnonymousInviteForbidden ==
    /\ []((/\ invitePc # "idle"
            /\ \/ accountability = Null
               \/ Val(accountability).user = Null)
           => /\ invitePc = "failed"
              /\ inviteResult = Failure("Forbidden")
              /\ inviteReads = 0
              /\ emailIndex = 0)
    /\ [][(/\ invitePc' # "idle"
            /\ \/ accountability' = Null
               \/ Val(accountability').user = Null)
           => mailbox' = mailbox]_vars

\* An anonymous caller with a full recipient list is refused, after an
\* earlier invite of an authenticated caller had sent mail.
C13_Witness ==
    /\ invitePc = "failed"
    /\ accountability # Null /\ Val(accountability).user = Null
    /\ Len(Val(invitePayload).emails) = MaxEmails
    /\ Val(invitePayload).share \in ShareIds
    /\ mailbox # <<>>
\* The steps of a login that got the row rec, in the order of the code; the
\* password check is a step of its own only for a row with a password.
StepsFor(rec) ==
    <<"select">>
    \o (IF rec.share_password # Null THEN <<"verify">> ELSE <<>>)
    \o <<"update", "insert", "sweep">>

IsPrefix(s, t) == Len(s) <= Len(t) /\ s = SubSeq(t, 1, Len(s))

Last(s) == s[Len(s)]

\* C14: within one login the steps happen in a fixed order: the share read
\* and the password check come before the timesUsed update, the update
\* before the session insert, the insert before the sweep, and the tokens
\* are returned only after the sweep; no step runs without all its
\* predecessors having succeeded.  The steps a call has run are always a
\* prefix of that order, a call returns tokens only with all of them run,
\* and the counter, the session table and the result change only in the
\* step whose turn it is.
C14_StepsInOrder ==
    /\ [](\A p \in Procs :
             /\ IsPrefix(steps[p], IF record[p] = Null THEN <<"select">>
                                   ELSE StepsFor(Val(record[p])))
             /\ pc[p] = "done" => steps[p] = StepsFor(Val(record[p]))
             /\ result[p].kind = "tokens" => pc[p] = "done")
    /\ [][/\ shares' # shares
             => \E p \in Procs :
                   /\ steps'[p] = Append(steps[p], "update")
                   /\ Last(steps[p]) \in {"select", "verify"}
          /\ sessions' # sessions
             => \E p \in Procs :
                   \/ /\ steps'[p] = Append(steps[p], "insert")
                      /\ Last(steps[p]) = "update"
                      /\ sessions' = sessions \cup {Val(newSession[p])}
                   \/ /\ steps'[p] = Append(steps[p], "sweep")
                      /\ Last(steps[p]) = "insert"
                      /\ sessions' \subseteq sessions
          /\ \A p \in Procs :
                (result'[p].kind = "tokens" /\ result[p].kind # "tokens")
                => /\ steps'[p] = Append(steps[p], "sweep")
                   /\ Last(steps[p]) = "insert"]_vars

\* A login of a share with a password has run all five steps and returns,
\* while a login of a share without one has run the read and the update.
C14_Witness ==
    \E p, q \in Procs :
        /\ pc[p] = "done"
        /\ Val(record[p]).share_password # Null
        /\ steps[p] = <<"select", "verify", "update", "insert", "sweep">>
        /\ pc[q] = "insert"
        /\ Val(record[q]).share_password = Null
        /\ steps[q] = <<"select", "update">>
\* C15: maxUses is not enforced exactly under concurrency: two concurrent
\* logins of one share can both read the same timesUsed before either
\* writes, both pass and both get a session, while timesUsed ends only 1
\* higher; so the successful logins of a share can outnumber the growth of
\* timesUsed and the logins that sequential execution allows.  Whenever two
\* calls have both written the counter from the same reading of the same
\* share, the counter stands 1 above that reading and each call has a
\* session row of its own.
C15_StaleReadsCountOnce ==
    \A p, q \in Procs :
        (/\ p # q
         /\ pc[p] \in {"insert", "sweep", "done"}
         /\ pc[q] \in {"insert", "sweep", "done"}
         /\ Val(record[p]).share_id = Val(record[q]).share_id
         /\ Val(record[p]).share_times_used = Val(record[q]).share_times_used)
        => /\ shares[Val(record[p]).share_id].times_used
                = Val(record[p]).share_times_used + 1
           /\ newSession[p] # Null /\ newSession[q] # Null
           /\ newSession[p] # newSession[q]

\* A share with maxUses = 1 has granted three logins, all three session
\* rows are in the table, and timesUsed is 2: two of the logins read the
\* same timesUsed.  Logins one after another get two.
C15_Witness ==
    \E id \in ShareIds :
        /\ shares[id].max_uses = Some(1)
        /\ Granted(id) = 3
        /\ Cardinality(SessionsOf(id)) = 3
        /\ shares[id].times_used = 2
        /\ \E p \in Procs : pc[p] = "done" /\ Val(record[p]).share_id = id
\* The logins of share id that have passed verification: those that have
\* returned tokens and those on their way from the update to the return.
Verified(id) ==
    Granted(id)
    + Cardinality({p \in Procs : /\ pc[p] \in {"update", "insert", "sweep"}
                                 /\ Val(record[p]).share_id = id})

\* The writes of timesUsed a call has made.
Writes(p) == Cardinality({i \in DOMAIN steps[p] : steps[p][i] = "update"})

\* C16: a single login never double-counts: a login that passes
\* verification writes timesUsed exactly once, and the value written is the
\* timesUsed it read plus 1, not a re-read; so under any interleaving the
\* stored timesUsed of a share (0 at the start) never exceeds the number of
\* logins that have passed verification for it.
C16_NeverDoubleCounts ==
    /\ [](\A id \in ShareIds : shares[id].times_used <= Verified(id))
    /\ [](\A p \in Procs :
             /\ Writes(p) <= 1
             /\ pc[p] \in {"insert", "sweep", "done"} => Writes(p) = 1)
    /\ [][\A id \in ShareIds :
             shares'[id] # shares[id]
             => \E p \in Procs :
                   /\ pc[p] = "update" /\ pc'[p] = "insert"
                   /\ Val(record[p]).share_id = id
                   /\ shares'[id] =
                        [shares[id] EXCEPT
                           !.times_used = Val(record[p]).share_times_used + 1]]_vars

\* Two logins of one share have both written the counter, the second from
\* a reading that was stale by then: two have passed verification and the
\* counter stands at 1.
C16_Witness ==
    \E p, q \in Procs :
        /\ p # q
        /\ pc[p] = "insert" /\ pc[q] = "sweep"
        /\ Val(record[p]).share_id = Val(record[q]).share_id
        /\ Val(record[p]).share_times_used = 0
        /\ Val(record[q]).share_times_used = 0
        /\ shares[Val(record[p]).share_id].times_used = 1
        /\ Verified(Val(record[p]).share_id) = 2
\* C17: the sweep of a successful login is global and exact: it deletes
\* every session row whose expires is strictly earlier than the time of the
\* sweep (the date the delete is issued with), whichever share the row
\* refers to and also when its share is null, it deletes no row whose
\* expires is at or after that time, and it changes no field of a row that
\* survives.
C17_SweepGlobalAndExact ==
    [][\A p \in Procs :
          (pc[p] = "sweep" /\ pc'[p] = "done")
          => /\ \A x \in sessions :
                   /\ x.expires < Val(sweepDate[p]) => x \notin sessions'
                   /\ x.expires >= Val(sweepDate[p]) => x \in sessions'
             /\ sessions' \subseteq sessions
             /\ Val(sweepDate[p]) <= now]_vars

\* A login of one share returns after a sweep dated 2: the user session
\* that expired at 1 and a session of the other share that expired at 1
\* are gone, the login's own session, which expires at 2, and the user
\* session that expires later are still there.
C17_Witness ==
    \E p \in Procs :
        /\ pc[p] = "done"
        /\ sweepDate[p] = Some(2)
        /\ \A x \in sessions : x.token # <<"user", 1>>
        /\ \E x \in sessions : x.token = <<"user", 2>>
        /\ \E x \in returned :
              /\ x.share # Some(Val(record[p]).share_id)
              /\ x.expires = 1
              /\ x \notin sessions
        /\ Val(newSession[p]).expires = 2
        /\ Val(newSession[p]) \in sessions
\* C18: every access token issued by login carries app_access = false and
\* admin_access = false, and its role, share and share_scope {item,
\* collection} are the role, id, item and collection of the share record
\* that passed verification in that same login, which is the share the
\* caller asked for; this holds for the token a call holds and for the one
\* it returns, under any interleaving of concurrent logins.
C18_TokenScopedToShare ==
    \A p \in Procs :
        /\ accessToken[p] # Null
           => LET claims == Val(accessToken[p]).claims
                  rec == Val(record[p])
              IN /\ claims.app_access = FALSE
                 /\ claims.admin_access = FALSE
                 /\ claims.role = rec.share_role
                 /\ claims.share = rec.share_id
                 /\ claims.share_scope = [item |-> rec.share_item,
                                          collection |-> rec.share_collection]
                 /\ rec.share_id = Val(payload[p]).share
                 /\ claims.role = shares[rec.share_id].role
                 /\ claims.share_scope.item = shares[rec.share_id].item
                 /\ claims.share_scope.collection
                      = shares[rec.share_id].collection
        /\ result[p].kind = "tokens"
           => /\ accessToken[p] # Null
              /\ result[p].accessToken = Val(accessToken[p])

\* Two logins of different shares run at once: one returns its token,
\* scoped to its share, while the other holds a token for the other share.
C18_Witness ==
    \E p, q \in Procs :
        /\ pc[p] = "done"
        /\ result[p].accessToken.claims.share = "s1"
        /\ result[p].accessToken.claims.share_scope.item = "i1"
        /\ pc[q] = "sweep"
        /\ Val(accessToken[q]).claims.share = "s2"
        /\ Val(accessToken[q]).claims.role = "r2"
\* The mails the invite call in progress has sent: the last emailIndex
\* entries of the mailbox.
SentByCall == SubSeq(mailbox, Len(mailbox) - emailIndex + 1, Len(mailbox))

\* C19: for an authenticated caller with read access to the share, invite
\* sends exactly one message per entry of the recipient list, in list
\* order, each only after the previous send completed; if the send to the
\* k-th recipient fails, invite fails, the recipients after the k-th get
\* nothing and the first k-1 messages stay sent; invite changes no share,
\* no session and no other persistent state.
C19_OneMailPerRecipient ==
    /\ [](invitePc # "idle"
           => LET emails == Val(invitePayload).emails
                  id == Val(invitePayload).share
              IN /\ emailIndex <= Len(emails)
                 /\ emailIndex <= Len(mailbox)
                 /\ \A i \in 1..emailIndex :
                       /\ SentByCall[i].to = emails[i]
                       /\ SentByCall[i].link = id
                       /\ SentByCall[i].inviter = Val(accountability).user
                       /\ SentByCall[i].collection = shares[id].collection
                 /\ invitePc = "done"
                    => /\ emailIndex = Len(emails)
                       /\ Val(accountability).user # Null
                       /\ <<Val(Val(accountability).user), id>> \in CanRead
                 /\ (invitePc = "failed" /\ inviteResult = Failure("Unavailable"))
                    => emailIndex < Len(emails))
    /\ [][/\ mailbox' # mailbox
             => /\ invitePc = "send"
                /\ emailIndex' = emailIndex + 1
                /\ Len(mailbox') = Len(mailbox) + 1
                /\ SubSeq(mailbox', 1, Len(mailbox)) = mailbox
                /\ mailbox'[Len(mailbox')].to
                     = Val(invitePayload).emails[emailIndex + 1]
          /\ shares' = shares
          /\ sessions' = sessions
          /\ returned' = returned
          /\ nextToken' = nextToken]_vars

\* The second of two invites has two recipients: the mail to the first is
\* sent, after the mail of the earlier invite, and the send to the second
\* fails.
C19_Witness ==
    /\ invitePc = "failed"
    /\ inviteResult = Failure("Unavailable")
    /\ Len(Val(invitePayload).emails) = 2
    /\ emailIndex = 1
    /\ Len(mailbox) = 2
    /\ mailbox[2].to = Val(invitePayload).emails[1]
    /\ mailbox[1].link # Val(invitePayload).share
\* C20: whenever login returns tokens, with a positive refresh-token TTL
\* longer than the duration of the call (so the session made by the call
\* has not expired when the call returns), a session row whose token is the
\* returned refresh token and whose share is the share logged in to is in
\* the session table at the moment of return: neither the login's own sweep
\* nor the sweep of a concurrent login deletes a session that has not
\* expired.
C20_ReturnedSessionExists ==
    \A p \in Procs :
        (/\ pc[p] = "done"
         /\ RefreshTokenTTL > 0
         /\ Val(newSession[p]).expires >= now)
        => \E x \in sessions :
              /\ x.token = result[p].refreshToken
              /\ x.share = Some(Val(record[p]).share_id)
              /\ x.share = Some(Val(payload[p]).share)
              /\ x.expires = Val(newSession[p]).expires

\* A login returns at time 1 with a session that expires at 1, after a
\* login that started its writes later has swept and returned: the row is
\* in the table although sweeps have run since it was made.
C20_Witness ==
    \E p \in Procs :
        /\ pc[p] = "done"
        /\ now = 1
        /\ Val(newSession[p]).expires = 1
        /\ Val(newSession[p]) \in sessions
        /\ \E x \in returned :
              /\ x.token[2] > Val(newSession[p]).token[2]
              /\ x.expires = 2

\* A call that outlasts the TTL: its own sweep deletes its session.
C20_ExpiredInCall ==
    \E p \in Procs :
        /\ pc[p] = "done"
        /\ Val(newSession[p]).expires < now
        /\ Val(newSession[p]) \notin sessions
====
